---- MODULE Spec2Model ----
(***************************************************************************)
(* rema: one process invocation of `rema [pull|update|clean]`.             *)
(* State machine of src/main.rs (main) over src/config.rs (RemaConfig,     *)
(* BuildConfig).  External collaborators (file system, git, spawned        *)
(* commands) are the environment: their results are chosen by \E.          *)
(***************************************************************************)
EXTENDS Integers, Sequences, FiniteSets, TLC

\* ---- bounds of the model ------------------------------------------------
\* entries of the base directory
MaxRepos == 2
\* command lines in a build (resp. clean) sequence of a rema.toml
MaxLines == 2

\* ---- Option<T> -----------------------------------------------------------
None == [tag |-> "None"]
Some(v) == [tag |-> "Some", v |-> v]
IsSome(o) == o.tag = "Some"
\* Option::unwrap_or_default
unwrap_or_default(o, default) == IF IsSome(o) THEN o.v ELSE default
OptionOf(S) == {None} \cup {Some(v) : v \in S}

\* ---- paths: a path is its sequence of components, "/" first when absolute -
HOME == <<"/", "home", "randomuser">>
\* PathBuf::new(): the empty path
EmptyPath == <<>>
\* Path::is_relative
is_relative(p) == p = <<>> \/ p[1] # "/"
\* the directories that exist on the file system
Dirs == {HOME}
\* Path::is_dir
is_dir(p) == p \in Dirs
\* ShellExpand for String: "~" becomes $HOME
expand(s) == IF s # <<>> /\ s[1] = "~" THEN HOME \o Tail(s) ELSE s
\* Path::to_str
RECURSIVE to_str(_)
to_str(p) ==
    IF p = <<>> THEN ""
    ELSE IF Len(p) = 1 THEN p[1]
    ELSE IF p[1] = "/" THEN "/" \o to_str(Tail(p))
    ELSE p[1] \o "/" \o to_str(Tail(p))

\* ---- the global config file (RemaConfigSe) ---------------------------------
EntryName(n) == "repo" \o ToString(n)
EntryNames == {EntryName(n) : n \in 1..MaxRepos}
BaseDirStrings == {<<"~">>, <<"src">>, <<"/", "missing">>, <<"/", "etc", "passwd">>}
\* the [repo.<label>] tables of the file, by their labels
RepoTables == {{}, {"test"}}
RemaConfigSe ==
    [base_dir : BaseDirStrings, ignore : OptionOf(SUBSET EntryNames),
     autoclean : OptionOf(BOOLEAN), autoupdate : OptionOf(BOOLEAN),
     repos : RepoTables]
\* the config file: unreadable, no TOML, or a TOML document with these keys
\* (include is a key the document may hold and RemaConfigSe does not declare)
GlobalFiles ==
    {[tag |-> "unreadable"], [tag |-> "invalid"]}
        \cup {[tag |-> "ok", base_dir |-> b, ignore |-> ig, autoclean |-> ac,
               autoupdate |-> au, repo |-> r, include |-> inc] :
                 b \in BaseDirStrings, ig \in OptionOf(SUBSET EntryNames),
                 ac \in OptionOf(BOOLEAN), au \in OptionOf(BOOLEAN),
                 r \in OptionOf(RepoTables), inc \in OptionOf(SUBSET EntryNames)}

\* From<RemaConfigSe> with base_dir taken as written
RemaConfigFrom_unexpanded(rcs) ==
    [base_dir |-> rcs.base_dir,
     ignore |-> unwrap_or_default(rcs.ignore, {}),
     autoclean |-> unwrap_or_default(rcs.autoclean, FALSE),
     autoupdate |-> unwrap_or_default(rcs.autoupdate, FALSE)]
\* From<RemaConfigSe> for RemaConfig
RemaConfigFrom(rcs) ==
    [base_dir |-> expand(rcs.base_dir),
     ignore |-> unwrap_or_default(rcs.ignore, {}),
     autoclean |-> unwrap_or_default(rcs.autoclean, FALSE),
     autoupdate |-> unwrap_or_default(rcs.autoupdate, FALSE)]

Ok(v) == [tag |-> "Ok", v |-> v]
Err(e) == [tag |-> "Err", e |-> e]

\* toml::from_str::<RemaConfigSe>: repos is no Option, include is no field
RemaConfigSe_from_str(file) ==
    IF file.tag = "invalid" THEN Err("syntax")
    ELSE IF ~IsSome(file.repo) THEN Err("missing field repo")
    ELSE Ok([base_dir |-> file.base_dir, ignore |-> file.ignore,
             autoclean |-> file.autoclean, autoupdate |-> file.autoupdate,
             repos |-> file.repo.v])

\* RemaConfig::new without the is_relative test
RemaConfig_new_relative_ok(file) ==
    IF file.tag = "unreadable" THEN Err("File")
    ELSE IF RemaConfigSe_from_str(file).tag = "Err" THEN Err("Toml")
    ELSE LET config == RemaConfigFrom(RemaConfigSe_from_str(file).v)
         IN  IF ~is_relative(config.base_dir) /\ ~is_dir(config.base_dir)
             THEN Err("BaseDirNotDir")
             ELSE Ok(config)
\* RemaConfig::new
RemaConfig_new(file) ==
    IF file.tag = "unreadable" THEN Err("File")
    ELSE IF RemaConfigSe_from_str(file).tag = "Err" THEN Err("Toml")
    ELSE LET config == RemaConfigFrom(RemaConfigSe_from_str(file).v)
         IN  IF is_relative(config.base_dir) THEN Err("BaseDirRelative")
             ELSE IF ~is_dir(config.base_dir) THEN Err("BaseDirNotDir")
             ELSE Ok(config)

\* the value of rema_config once into_iter has consumed it
Moved == [tag |-> "moved"]

\* ---- discovery (IntoIterator for RemaConfig) -------------------------------
\* kinds of a directory entry: regular file, plain directory, git repository
EntryKinds == {"file", "dir", "repo"}
Listings == [1..MaxRepos -> EntryKinds]
\* Repository::path of the repository found at entry n of base_dir
RepoPath(base_dir, n) == base_dir \o <<EntryName(n), ".git">>
\* the closure of filter_map without the ignore test
Keeps_ignored_too(config, listing, n) ==
    /\ ~(listing[n] = "file")
    /\ listing[n] = "repo"
\* the closure of filter_map: is entry n kept
Keeps(config, listing, n) ==
    /\ ~(listing[n] = "file" \/ EntryName(n) \in config.ignore)
    /\ listing[n] = "repo"
RECURSIVE into_iter_from(_, _, _)
into_iter_from(config, listing, n) ==
    IF n > MaxRepos THEN <<>>
    ELSE (IF Keeps(config, listing, n)
          THEN <<RepoPath(config.base_dir, n)>> ELSE <<>>)
         \o into_iter_from(config, listing, n + 1)
into_iter(config, listing) == into_iter_from(config, listing, 1)

\* ---- command lines ---------------------------------------------------------
\* a line is a sequence of chunks; " " is a run of whitespace
BuildLineOf(n) == <<"make", " ", "stage" \o ToString(n)>>
CleanLineOf(n) == <<"rm", " ", "-rf", " ", "out" \o ToString(n)>>
BuildSeqs == {[n \in 1..len |-> BuildLineOf(n)] : len \in 0..MaxLines}
CleanSeqs == {[n \in 1..len |-> CleanLineOf(n)] : len \in 0..MaxLines}
\* str::split_whitespace
split_whitespace(line) == SelectSeq(line, LAMBDA c : c # " ")

\* ---- the per-repository config file rema.toml (BuildConfigSe) ---------------
RepoFiles ==
    {[tag |-> "absent"], [tag |-> "invalid"]}
        \cup {[tag |-> "ok", name |-> nm, build |-> b, clean |-> c,
               autoclean |-> ac, autoupdate |-> au] :
                 nm \in OptionOf({"proj"}), b \in OptionOf(BuildSeqs),
                 c \in OptionOf(CleanSeqs), ac \in OptionOf(BOOLEAN),
                 au \in OptionOf(BOOLEAN)}

\* toml::from_str::<BuildConfigSe> with name an Option that defaults to ""
BuildConfigSe_from_str_name_optional(file) ==
    IF file.tag = "invalid" THEN Err("syntax")
    ELSE IF ~IsSome(file.build) THEN Err("missing field build")
    ELSE Ok([name |-> unwrap_or_default(file.name, ""), build |-> file.build.v,
             clean |-> file.clean, autoclean |-> file.autoclean,
             autoupdate |-> file.autoupdate])
\* toml::from_str::<BuildConfigSe>: name and build are not Option
BuildConfigSe_from_str(file) ==
    IF file.tag = "invalid" THEN Err("syntax")
    ELSE IF ~IsSome(file.name) THEN Err("missing field name")
    ELSE IF ~IsSome(file.build) THEN Err("missing field build")
    ELSE Ok([name |-> file.name.v, build |-> file.build.v, clean |-> file.clean,
             autoclean |-> file.autoclean, autoupdate |-> file.autoupdate])

\* ShellExpand for Vec<T>
expand_vec(v) == [n \in DOMAIN v |-> expand(v[n])]

\* From<(BuildConfigSe, &Path)> for BuildConfig
BuildConfigFrom(bcs, p) ==
    [name |-> bcs.name, path |-> p, build |-> expand_vec(bcs.build),
     clean |-> expand_vec(unwrap_or_default(bcs.clean, <<>>)),
     autoclean |-> unwrap_or_default(bcs.autoclean, FALSE),
     autoupdate |-> unwrap_or_default(bcs.autoupdate, FALSE)]

\* BuildConfig::new with autoupdate switched on
BuildConfig_new_autoupdate(p) ==
    [name |-> to_str(p), path |-> p, build |-> <<>>, clean |-> <<>>,
     autoclean |-> FALSE, autoupdate |-> TRUE]
\* BuildConfig::new
BuildConfig_new(p) ==
    [name |-> to_str(p), path |-> p, build |-> <<>>, clean |-> <<>>,
     autoclean |-> FALSE, autoupdate |-> FALSE]

\* try_from_repo with a parse error falling back to the defaults
try_from_repo_lenient(file, p) ==
    IF file.tag # "absent"
    THEN LET r == BuildConfigSe_from_str(file)
         IN  IF r.tag = "Ok" THEN Some(BuildConfigFrom(r.v, p))
             ELSE Some(BuildConfig_new(p))
    ELSE Some(BuildConfig_new(p))
\* BuildConfig::try_from_repo
try_from_repo(file, p) ==
    IF file.tag # "absent"
    THEN LET r == BuildConfigSe_from_str(file)
         IN  IF r.tag = "Ok" THEN Some(BuildConfigFrom(r.v, p)) ELSE None
    ELSE Some(BuildConfig_new(p))

\* what the file was, as far as resolution tells it apart
FileStatus(file) ==
    IF file.tag = "absent" THEN "absent"
    ELSE IF BuildConfigSe_from_str(file).tag = "Ok" THEN "parsed" ELSE "malformed"

\* ---- git pull (BuildConfig::pull) -------------------------------------------
check_phrase ==
    <<"A", "l", "r", "e", "a", "d", "y", " ", "u", "p", " ",
      "t", "o", " ", "d", "a", "t", "e", ".">>
\* a byte that is no valid UTF-8
BadByte == "0xFF"
\* stdout of git pull: nothing (the message went to stderr), the marker
\* with its newline, a fast-forward report, and a report that starts with a
\* byte that is no UTF-8
PullOutputs ==
    { <<>>,
      check_phrase \o <<"\n">>,
      <<"U", "p", "d", "a", "t", "i", "n", "g", " ", "1", "f", "3", "a",
        ".", ".", "9", "c", "2", "e", "\n", "F", "a", "s", "t", "-",
        "f", "o", "r", "w", "a", "r", "d", "\n">>,
      <<BadByte>> \o check_phrase }
\* Command::output: the process could not be spawned, or it ran
PullResults ==
    {[tag |-> "spawn_err", success |-> FALSE, stdout |-> <<>>]}
        \cup {[tag |-> "ran", success |-> ok, stdout |-> out] :
                 ok \in BOOLEAN, out \in PullOutputs}

\* output.stdout[..check_phrase.len()] is in range
slice_in_range(stdout) == Len(check_phrase) <= Len(stdout)
\* String::from_utf8 succeeds
from_utf8_ok(bytes) == \A n \in DOMAIN bytes : bytes[n] # BadByte
\* pull() taking a git that could not be spawned for a pull that failed
pull_panic_spawn_tolerated(res) ==
    IF res.tag = "spawn_err" THEN ""
    ELSE IF ~slice_in_range(res.stdout) THEN "range end index out of range"
    ELSE IF ~from_utf8_ok(SubSeq(res.stdout, 1, Len(check_phrase)))
         THEN "called Result::unwrap() on an Err value"
    ELSE ""
\* the panic pull() ends with on this result of git, "" when it returns
pull_panic(res) ==
    IF res.tag = "spawn_err" THEN "failed to execute git"
    ELSE IF ~slice_in_range(res.stdout) THEN "range end index out of range"
    ELSE IF ~from_utf8_ok(SubSeq(res.stdout, 1, Len(check_phrase)))
         THEN "called Result::unwrap() on an Err value"
    ELSE ""
\* does pull() call self.build()
pull_builds(conf) == conf.autoupdate
\* pull() with the autoupdate branch returning the comparison too
pull_returns_after_build(conf, res) ==
    res.success /\ SubSeq(res.stdout, 1, Len(check_phrase)) # check_phrase
\* pull() without the comparison with check_phrase
pull_returns_status_only(conf, res) ==
    IF conf.autoupdate THEN FALSE ELSE res.success
\* the value pull() returns
pull_returns(conf, res) ==
    IF conf.autoupdate THEN FALSE
    ELSE res.success /\ SubSeq(res.stdout, 1, Len(check_phrase)) # check_phrase

\* ---- running one line (BuildConfig::run_line_as_cmd) -------------------------
\* spawn and wait: exit status zero or not, or failure to spawn (wait on a
\* child just spawned does not fail)
CmdOutcomes == {"zero", "nonzero", "spawn_err"}
\* run_line_as_cmd with the exit status checked by an expect
run_line_panic_on_status(line, outcome) ==
    IF split_whitespace(line) = <<>> THEN "called Option::unwrap() on a None value"
    ELSE IF outcome # "zero" THEN "failed to run command"
    ELSE ""
\* the panic run_line_as_cmd ends with, "" when it returns
run_line_panic(line, outcome) ==
    IF split_whitespace(line) = <<>> THEN "called Option::unwrap() on a None value"
    ELSE IF outcome = "spawn_err" THEN "failed to run command"
    ELSE IF outcome = "wait_err" THEN "command failed to run"
    ELSE ""
\* is the process started (Command::spawn is reached)
run_line_spawns(line) == split_whitespace(line) # <<>>
\* how a child that was spawned can exit
ExitOutcomes == CmdOutcomes \ {"spawn_err"}
\* a spawned child: the line it runs, where, and its place in its sequence
Child(path, line, sequence, n) ==
    [cwd |-> path, line |-> line, seq |-> sequence, n |-> n]
\* run_line_as_cmd dropping the Child that spawn() returns
run_line_never_waits == FALSE
\* does run_line_as_cmd wait for the child it spawned: .spawn()...wait()
run_line_waits == TRUE

\* build() without its autoclean branch
build_cleans_never(c) == FALSE
\* does build() call self.clean() after its loop
build_cleans(c) == c.autoclean

\* ---- the handoff file --------------------------------------------------------
\* main: let updates_file = PathBuf::new()
updates_file == EmptyPath
\* what a path of the file system holds: nothing, or a file with its text
NoFile == [tag |-> "NoFile"]
File(text) == [tag |-> "File", text |-> text]
\* ron::ser::to_string(&Vec<PathBuf>)
RECURSIVE ron_items(_)
ron_items(paths) ==
    IF paths = <<>> THEN <<>>
    ELSE IF Len(paths) = 1 THEN <<"\"" \o to_str(paths[1]) \o "\"">>
    ELSE <<"\"" \o to_str(paths[1]) \o "\"", ",">> \o ron_items(Tail(paths))
ron_to_string(paths) == <<"[">> \o ron_items(paths) \o <<"]">>
\* std::fs::write: opening the empty path fails
fs_write_ok(path) == path # EmptyPath
\* std::fs::read_to_string: opening the empty path fails
fs_read_ok(path, content) == path # EmptyPath /\ content.tag = "File"

\* ---- state ---------------------------------------------------------------------
VARIABLES
    cmd,          \* matches.subcommand()
    pc,           \* where main is
    panic,        \* the panic message, "" while the process has not panicked
    rema_config,  \* RemaConfig, once RemaConfig::new returned it
    listing,      \* the entries of base_dir as read_dir reports them
    repos,        \* the Vec<Repository> of into_iter, by Repository::path
    i,            \* the repository the iteration is at (1-based)
    confs,        \* per repository reached: what try_from_repo saw and returned
    k,            \* lines of the running build or clean sequence already run
    ret,          \* the value the running pull() returns once build() is back
    pulls,        \* the Vec<PathBuf> the pull arm collects
    log,          \* the external processes invoked so far, in order
    persisted,    \* the contents of the file at updates_file
    children,     \* the child processes spawned and not yet waited for
    probe         \* SpecConfig only: the inputs and results of the config functions

vars ==
    <<cmd, pc, panic, rema_config, listing, repos, i, confs, k, ret, pulls, log,
      persisted, children, probe>>

Cmds == {"pull", "update", "clean", ""}

Init ==
    /\ cmd \in Cmds
    /\ pc = "start"
    /\ panic = ""
    /\ rema_config = None
    /\ listing = <<>>
    /\ repos = <<>>
    /\ i = 1
    /\ confs = <<>>
    /\ k = 0
    /\ ret = FALSE
    /\ pulls = <<>>
    /\ log = <<>>
    /\ persisted = NoFile
    /\ children = {}
    /\ probe = None

\* the BuildConfig of the repository the iteration is at
conf == confs[i].conf.v

Panic(msg) == pc' = "panicked" /\ panic' = msg

\* the arm of `match matches.subcommand()`
ArmOf(c) ==
    IF c \in {"pull", "clean"} THEN "discover"
    ELSE IF c = "update" THEN "update_read"
    ELSE "exit"
\* the loop a finished repository returns to
IterOf(c) ==
    IF c = "pull" THEN "pull_iter" ELSE IF c = "update" THEN "update_iter"
    ELSE "clean_iter"

\* the clean arm calling build() on the config
clean_arm_call_build == "build"
\* the method the clean arm calls on the config: get_config!(dir).clean()
clean_arm_call == "clean"

\* main, lines 24-42: RemaConfig::new, panic on Err, then the match
Startup ==
    /\ pc = "start"
    /\ \E file \in GlobalFiles :
         LET r == RemaConfig_new(file)
         IN  IF r.tag = "Err"
             THEN Panic(r.e) /\ UNCHANGED rema_config
             ELSE /\ rema_config' = Some(r.v)
                  /\ pc' = ArmOf(cmd)
                  /\ panic' = ""
    /\ UNCHANGED <<cmd, listing, repos, i, confs, k, ret, pulls, log, persisted, children, probe>>

\* rema_config.into_iter(): read_dir, filter_map, collect
Discover ==
    /\ pc = "discover"
    /\ \E l \in Listings :
         /\ listing' = l
         /\ repos' = into_iter(rema_config.v, l)
    /\ rema_config' = Moved
    /\ pc' = IterOf(cmd)
    /\ UNCHANGED <<cmd, panic, i, confs, k, ret, pulls, log, persisted, children, probe>>

\* one entry of the log: an external process and how it ended
LogEntry(path, line, sequence, n, outcome, out) ==
    [cwd |-> path, argv |-> split_whitespace(line), seq |-> sequence, n |-> n,
     outcome |-> outcome, stdout |-> out]
GitPull == <<"git", " ", "pull">>

\* the pull arm's closure for one repository: try_from_repo, then pull()
\* up to its return or its call of build()
PullRepo ==
    /\ pc = "pull_iter"
    /\ i <= Len(repos)
    /\ \E file \in RepoFiles, res \in PullResults :
         LET c == try_from_repo(file, repos[i])
             entry == LogEntry(repos[i], GitPull, "pull", 1,
                               IF res.tag = "spawn_err" THEN "spawn_err"
                               ELSE IF res.success THEN "zero" ELSE "nonzero",
                               IF res.tag = "spawn_err" THEN <<>> ELSE res.stdout)
         IN  /\ confs' = Append(confs, [status |-> FileStatus(file), conf |-> c])
             /\ IF ~IsSome(c)
                THEN /\ i' = i + 1
                     /\ UNCHANGED <<pc, panic, ret, pulls, log>>
                ELSE /\ log' = Append(log, entry)
                     /\ IF pull_panic(res) # ""
                        THEN Panic(pull_panic(res)) /\ UNCHANGED <<i, ret, pulls>>
                        ELSE IF pull_builds(c.v)
                        THEN /\ pc' = "build"
                             /\ ret' = pull_returns(c.v, res)
                             /\ UNCHANGED <<panic, i, pulls>>
                        ELSE /\ pulls' = IF pull_returns(c.v, res)
                                         THEN Append(pulls, c.v.path) ELSE pulls
                             /\ i' = i + 1
                             /\ UNCHANGED <<pc, panic, ret>>
    /\ k' = 0
    /\ UNCHANGED <<cmd, rema_config, listing, repos, persisted, children, probe>>

\* the pull arm after collect: serialise pulls and write the file
PullWrite ==
    /\ pc = "pull_iter"
    /\ i > Len(repos)
    /\ IF fs_write_ok(updates_file)
       THEN persisted' = File(ron_to_string(pulls)) /\ pc' = "exit" /\ panic' = ""
       ELSE Panic("failed writing pulls to file") /\ UNCHANGED persisted
    /\ UNCHANGED <<cmd, rema_config, listing, repos, i, confs, k, ret, pulls, log, children, probe>>

\* the update arm's first statement: read the file
UpdateRead ==
    /\ pc = "update_read"
    /\ IF fs_read_ok(updates_file, persisted)
       THEN pc' = "update_iter" /\ panic' = ""
       ELSE Panic("failed reading pulls")
    /\ UNCHANGED <<cmd, rema_config, listing, repos, i, confs, k, ret, pulls, log, persisted, children, probe>>

\* the clean arm's loop body up to the call of clean(): get_config!
CleanRepo ==
    /\ pc = "clean_iter"
    /\ i <= Len(repos)
    /\ \E file \in RepoFiles :
         LET c == try_from_repo(file, repos[i])
         IN  /\ confs' = Append(confs, [status |-> FileStatus(file), conf |-> c])
             /\ IF IsSome(c)
                THEN pc' = clean_arm_call /\ UNCHANGED i
                ELSE i' = i + 1 /\ UNCHANGED pc
    /\ k' = 0
    /\ UNCHANGED <<cmd, panic, rema_config, listing, repos, ret, pulls, log, persisted, children, probe>>

\* the clean arm's loop is over: main returns
CleanExit ==
    /\ pc = "clean_iter"
    /\ i > Len(repos)
    /\ pc' = "exit"
    /\ UNCHANGED <<cmd, panic, rema_config, listing, repos, i, confs, k, ret, pulls, log, persisted, children, probe>>

\* build() or clean() returned: in the pull arm pull() returns ret to the
\* closure of filter_map, and the loop of the arm goes on
Return ==
    /\ pulls' = IF ret THEN Append(pulls, conf.path) ELSE pulls
    /\ ret' = FALSE
    /\ pc' = IterOf(cmd)
    /\ i' = i + 1
    /\ k' = 0

\* run_line_as_cmd up to Command::spawn, and past it when it does not wait
RunLine(line, sequence) ==
    IF ~run_line_spawns(line)
    THEN /\ Panic(run_line_panic(line, "zero"))
         /\ UNCHANGED <<k, log, children>>
    ELSE \E spawned \in BOOLEAN :
           IF ~spawned
           THEN /\ log' = Append(log, LogEntry(conf.path, line, sequence, k + 1,
                                               "spawn_err", <<>>))
                /\ UNCHANGED children
                /\ IF run_line_panic(line, "spawn_err") # ""
                   THEN Panic(run_line_panic(line, "spawn_err")) /\ UNCHANGED k
                   ELSE k' = k + 1 /\ UNCHANGED <<pc, panic>>
           ELSE /\ children' = children \cup {Child(conf.path, line, sequence, k + 1)}
                /\ UNCHANGED <<panic, log>>
                /\ IF run_line_waits
                   THEN pc' = "wait" /\ UNCHANGED k
                   ELSE k' = k + 1 /\ UNCHANGED pc

\* one iteration of `for line in &self.build`
BuildLine ==
    /\ pc = "build"
    /\ k < Len(conf.build)
    /\ RunLine(conf.build[k + 1], "build")
    /\ UNCHANGED <<cmd, rema_config, listing, repos, i, confs, ret, pulls, persisted, probe>>

\* Child::wait returns: the child has exited and run_line_as_cmd returns
Wait ==
    /\ pc = "wait"
    /\ \E child \in children, outcome \in ExitOutcomes :
         /\ children' = children \ {child}
         /\ log' = Append(log, LogEntry(child.cwd, child.line, child.seq, child.n,
                                        outcome, <<>>))
         /\ IF run_line_panic(child.line, outcome) # ""
            THEN Panic(run_line_panic(child.line, outcome)) /\ UNCHANGED k
            ELSE k' = k + 1 /\ pc' = child.seq /\ UNCHANGED panic
    /\ UNCHANGED <<cmd, rema_config, listing, repos, i, confs, ret, pulls, persisted, probe>>

\* build() after its loop: `if self.autoclean { self.clean() }`
BuildDone ==
    /\ pc = "build"
    /\ k = Len(conf.build)
    /\ IF build_cleans(conf)
       THEN pc' = "clean" /\ k' = 0 /\ UNCHANGED <<i, ret, pulls>>
       ELSE Return
    /\ UNCHANGED <<cmd, panic, rema_config, listing, repos, confs, log, persisted, children, probe>>

\* one iteration of `for line in &self.clean`
CleanLine ==
    /\ pc = "clean"
    /\ k < Len(conf.clean)
    /\ RunLine(conf.clean[k + 1], "clean")
    /\ UNCHANGED <<cmd, rema_config, listing, repos, i, confs, ret, pulls, persisted, probe>>

\* clean() after its loop
CleanDone ==
    /\ pc = "clean"
    /\ k = Len(conf.clean)
    /\ Return
    /\ UNCHANGED <<cmd, panic, rema_config, listing, repos, confs, log, persisted, children, probe>>

Next ==
    \/ Startup
    \/ Discover
    \/ PullRepo
    \/ PullWrite
    \/ UpdateRead
    \/ CleanRepo
    \/ CleanExit
    \/ BuildLine
    \/ Wait
    \/ BuildDone
    \/ CleanLine
    \/ CleanDone

Spec == Init /\ [][Next]_vars

\* ---- the configuration functions on their own -------------------------------
\* RemaConfig::new, RemaConfig::into_iter and BuildConfig::try_from_repo
\* applied to every config file, directory listing and rema.toml of the bounds
ProbeOf(stage, file, se, from, new, l, rs, rfile, p, c) ==
    [stage |-> stage, file |-> file, se |-> se, from |-> from, new |-> new,
     listing |-> l, repos |-> rs, rfile |-> rfile, path |-> p, conf |-> c]

InitConfig ==
    /\ cmd = ""
    /\ pc = "probe"
    /\ panic = ""
    /\ rema_config = None
    /\ listing = <<>>
    /\ repos = <<>>
    /\ i = 1
    /\ confs = <<>>
    /\ k = 0
    /\ ret = FALSE
    /\ pulls = <<>>
    /\ log = <<>>
    /\ persisted = NoFile
    /\ children = {}
    /\ \E file \in GlobalFiles :
         probe = ProbeOf("file", file, None, None, None, None, None, None, None, None)

main_vars ==
    <<cmd, pc, panic, rema_config, listing, repos, i, confs, k, ret, pulls, log,
      persisted, children>>

\* RemaConfig::new(file), with the RemaConfigSe it parses and converts
ConfigNew ==
    /\ probe.stage = "file"
    /\ LET se == IF probe.file.tag = "unreadable" THEN None
                 ELSE RemaConfigSe_from_str(probe.file)
           from == IF se # None /\ se.tag = "Ok"
                   THEN Some(RemaConfigFrom(se.v)) ELSE None
       IN  probe' = [probe EXCEPT !.stage = "new", !.se = se, !.from = from,
                                  !.new = RemaConfig_new(probe.file)]
    /\ UNCHANGED main_vars

\* rema_config.into_iter() over a listing of the base directory
ConfigIter ==
    /\ probe.stage = "new"
    /\ probe.new.tag = "Ok"
    /\ \E l \in Listings :
         probe' = [probe EXCEPT !.stage = "iter", !.listing = l,
                                !.repos = into_iter(probe.new.v, l)]
    /\ UNCHANGED main_vars

\* BuildConfig::try_from_repo on a repository of the base directory
ConfigResolve ==
    /\ probe.stage = "new"
    /\ probe.new.tag = "Ok"
    /\ \E rfile \in RepoFiles, n \in 1..MaxRepos :
         LET p == RepoPath(probe.new.v.base_dir, n)
         IN  probe' = [probe EXCEPT !.stage = "resolve", !.rfile = rfile,
                                    !.path = p, !.conf = try_from_repo(rfile, p)]
    /\ UNCHANGED main_vars

NextConfig ==
    \/ ConfigNew
    \/ ConfigIter
    \/ ConfigResolve

SpecConfig == InitConfig /\ [][NextConfig]_vars

\* ---- vocabulary of the properties ------------------------------------------------
Range(f) == {f[n] : n \in DOMAIN f}
\* does the sequence start with the prefix
BeginsWith(sequence, prefix) ==
    /\ Len(prefix) <= Len(sequence)
    /\ \A n \in 1..Len(prefix) : sequence[n] = prefix[n]
\* repositories the iteration has reached, and those whose config resolved
Reached == 1..Len(confs)
Resolved(j) == j \in Reached /\ IsSome(confs[j].conf)
ConfOf(j) == confs[j].conf.v
\* the log positions of repository j: its git pull, its build and clean lines
PullAt(j) == {n \in DOMAIN log : log[n].cwd = repos[j] /\ log[n].seq = "pull"}
LinesAt(j, sequence) ==
    {n \in DOMAIN log : log[n].cwd = repos[j] /\ log[n].seq = sequence}
\* git pull of repository j ran and reported this
PullRan(j) == \E n \in PullAt(j) : log[n].outcome # "spawn_err"
PullSuccess(j) == \E n \in PullAt(j) : log[n].outcome = "zero"
PullMarker(j) == \E n \in PullAt(j) : BeginsWith(log[n].stdout, check_phrase)
\* the pull of repository j fetched new content
NewContent(j) == PullRan(j) /\ PullSuccess(j) /\ ~PullMarker(j)
\* line n of the sequence was invoked in the repository's directory
Invoked(j, sequence, n, line) ==
    \E m \in LinesAt(j, sequence) :
        log[m].n = n /\ log[m].argv = split_whitespace(line)
\* the path is listed in the persisted form
Listed(path) ==
    /\ persisted.tag = "File"
    /\ ("\"" \o to_str(path) \o "\"") \in Range(persisted.text)
\* the pull arm has gone through every repository
WriteMsg == "failed writing pulls to file"
PullWritten == cmd = "pull" /\ (pc = "exit" \/ (pc = "panicked" /\ panic = WriteMsg))
PullPhaseEnded ==
    cmd = "pull" /\ ((pc = "pull_iter" /\ i > Len(repos)) \/ PullWritten)

\* C1: autoupdate cascade. Once the pull phase has gone through every
\* repository, a repository with autoupdate=true whose pull fetched new content
\* is neither in the pending set nor in the persisted form, and every line of
\* its build sequence has been invoked in its directory.
C1_AutoupdateCascade ==
    PullPhaseEnded =>
        \A j \in 1..Len(repos) :
            (Resolved(j) /\ ConfOf(j).autoupdate /\ NewContent(j)) =>
                /\ repos[j] \notin Range(pulls)
                /\ ~Listed(repos[j])
                /\ \A n \in DOMAIN ConfOf(j).build :
                       Invoked(j, "build", n, ConfOf(j).build[n])
C1_Witness ==
    /\ PullPhaseEnded
    /\ \E j \in 1..Len(repos) :
           /\ Resolved(j) /\ ConfOf(j).autoupdate /\ NewContent(j)
           /\ Len(ConfOf(j).build) >= 2
           /\ Cardinality(LinesAt(j, "build")) = Len(ConfOf(j).build)

\* C2: up to date means no further action. A repository whose pull did not
\* exit successfully or whose output begins with the marker has no build and no
\* clean command invoked and is not in the pending set.
C2_UpToDateNoAction ==
    cmd = "pull" =>
        \A j \in Reached :
            (PullRan(j) /\ (~PullSuccess(j) \/ PullMarker(j))) =>
                /\ LinesAt(j, "build") = {}
                /\ LinesAt(j, "clean") = {}
                /\ repos[j] \notin Range(pulls)

\* the panics of pull() after git has run
ClassifyPanics ==
    {"range end index out of range", "called Result::unwrap() on an Err value"}
\* C3: pull-success detection. Whatever git pull printed and however it exited,
\* classification does not abort the run; output that begins with the marker
\* keeps the repository out of the pending set; other output with a successful
\* exit makes the repository one with new content (pending, when it is not
\* built at once).
C3_PullClassification ==
    cmd = "pull" =>
        /\ panic \notin ClassifyPanics
        /\ \A j \in Reached :
               /\ (PullRan(j) /\ PullMarker(j)) => repos[j] \notin Range(pulls)
               /\ (NewContent(j) /\ j < i /\ ~ConfOf(j).autoupdate)
                      => repos[j] \in Range(pulls)

\* the repositories that are pending: resolved, autoupdate=false, new content
Pending(j) == Resolved(j) /\ ~ConfOf(j).autoupdate /\ NewContent(j)
RECURSIVE PendingFrom(_)
PendingFrom(j) ==
    IF j > Len(repos) THEN <<>>
    ELSE (IF Pending(j) THEN <<repos[j]>> ELSE <<>>) \o PendingFrom(j + 1)
\* C4: at the end of a pull phase the pending set holds exactly the paths of
\* the repositories with autoupdate=false whose pull fetched new content, each
\* once, and no build line of such a repository was invoked.
C4_PendingExact ==
    PullPhaseEnded =>
        /\ pulls = PendingFrom(1)
        /\ Cardinality(Range(pulls)) = Len(pulls)
        /\ \A j \in 1..Len(repos) : Pending(j) => LinesAt(j, "build") = {}
C4_Witness ==
    /\ PullPhaseEnded
    /\ Len(pulls) >= 1
    /\ \E j \in 1..Len(repos) : Pending(j) /\ Len(ConfOf(j).build) >= 1
    /\ \E j \in 1..Len(repos) : Resolved(j) /\ ~Pending(j)

\* the build and clean lines invoked in the directory of repository j, in order
Proj(e) == [seq |-> e.seq, n |-> e.n, argv |-> e.argv]
IsLine(e) == e.seq \in {"build", "clean"}
LinesOf(j) ==
    LET own == SelectSeq(log, LAMBDA e : e.cwd = repos[j] /\ IsLine(e))
    IN  [m \in DOMAIN own |-> Proj(own[m])]
\* C5: abort on the first failing build command. After a build command of a
\* repository exited non-zero, no later build line and no clean line of that
\* repository is invoked.
C5_AbortOnFailingBuild ==
    \A a, b \in DOMAIN log :
        (/\ a < b
         /\ log[a].cwd = log[b].cwd
         /\ log[a].seq = "build"
         /\ log[a].outcome = "nonzero") => ~IsLine(log[b])

\* the step invokes a build or clean command that ends this way
LineEnds(outcomes) ==
    /\ Len(log') = Len(log) + 1
    /\ IsLine(log'[Len(log')])
    /\ log'[Len(log')].outcome \in outcomes
StartupErrors == {"File", "Toml", "BaseDirRelative", "BaseDirNotDir"}
Expected(c) ==
    LET nb == Len(c.build)
        nc == IF c.autoclean THEN Len(c.clean) ELSE 0
    IN  [m \in 1..(nb + nc) |->
            IF m <= nb
            THEN [seq |-> "build", n |-> m, argv |-> split_whitespace(c.build[m])]
            ELSE [seq |-> "clean", n |-> m - nb,
                  argv |-> split_whitespace(c.clean[m - nb])]]
IsPrefix(short, long) ==
    Len(short) <= Len(long) /\ \A m \in DOMAIN short : short[m] = long[m]
\* the processes run in the directory of repository j are next to each other
Contiguous(j) ==
    LET own == {n \in DOMAIN log : log[n].cwd = repos[j]}
    IN  \A a, b \in own : \A m \in a..b : m \in own
\* every build line of repository j was invoked and exited zero
BuildOk(j) ==
    \A n \in DOMAIN ConfOf(j).build :
        \E m \in LinesAt(j, "build") : log[m].n = n /\ log[m].outcome = "zero"
\* C7: autoclean cascade. For a repository with autoclean=true that pull()
\* builds and whose build lines all exited zero, the commands invoked in its
\* directory are its build lines followed at once by its clean lines, in
\* listed order, with no command of another repository in between: always a
\* prefix of that sequence, and the whole of it once build() has returned.
C7_AutocleanCascade ==
    cmd = "pull" =>
        \A j \in Reached :
            (/\ Resolved(j)
             /\ ConfOf(j).autoupdate
             /\ ConfOf(j).autoclean
             /\ BuildOk(j)) =>
                /\ IsPrefix(LinesOf(j), Expected(ConfOf(j)))
                /\ j < i => LinesOf(j) = Expected(ConfOf(j))
                /\ Contiguous(j)
C7_Witness ==
    /\ cmd = "pull"
    /\ Len(repos) = 2
    /\ i = 2
    /\ Resolved(1) /\ ConfOf(1).autoupdate /\ ConfOf(1).autoclean /\ BuildOk(1)
    /\ Len(ConfOf(1).build) = 2
    /\ Len(ConfOf(1).clean) = 2
    /\ Cardinality(LinesAt(1, "clean")) = 2
    /\ Resolved(2)
    /\ LinesAt(2, "build") # {}

\* C8: a pull phase that got to its end has written the pending set: the
\* persisted form is the serialised pending set of this run.
C8_PullPersists ==
    PullWritten => persisted = File(ron_to_string(pulls))

\* C9: an update run after a successful startup reads the persisted form
\* without error and invokes build lines only in listed repositories.
C9_UpdateBuildsListed ==
    (cmd = "update" /\ rema_config # None) =>
        /\ pc # "panicked"
        /\ \A n \in DOMAIN log : log[n].seq = "build" /\ Listed(log[n].cwd)

C11_AbsentFileDefaults ==
    \A j \in Reached :
        confs[j].status = "absent" =>
            /\ confs[j].conf =
                   Some([name |-> to_str(repos[j]), path |-> repos[j],
                         build |-> <<>>, clean |-> <<>>,
                         autoclean |-> FALSE, autoupdate |-> FALSE])
            /\ LinesAt(j, "build") = {}
            /\ LinesAt(j, "clean") = {}
            /\ (PullPhaseEnded /\ NewContent(j)) => repos[j] \in Range(pulls)
C11_Witness ==
    /\ PullPhaseEnded
    /\ \E j \in Reached :
          /\ confs[j].status = "absent"
          /\ NewContent(j)
          /\ repos[j] \in Range(pulls)
          /\ ConfOf(j).name = to_str(HOME \o <<EntryName(j), ".git">>)

\* the rema.toml handed to try_from_repo is a TOML document, and the result
Resolving == probe # None /\ probe.stage = "resolve" /\ probe.rfile.tag = "ok"
\* the value of a key, or the default when the document omits it
KeyOr(key, default) == IF key.tag = "Some" THEN key.v ELSE default

Unset(key) ==
    \/ probe.rfile.tag = "absent"
    \/ probe.rfile.tag = "ok" /\ probe.rfile[key] = None

\* C13: the global default flags are inherited. A repository whose config
\* resolves without setting autoclean (autoupdate) itself resolves with the
\* autoclean (autoupdate) of the global config.
C13_GlobalFlagsInherited ==
    (probe # None /\ probe.stage = "resolve" /\ probe.conf # None) =>
        /\ Unset("autoclean") => probe.conf.v.autoclean = probe.new.v.autoclean
        /\ Unset("autoupdate") => probe.conf.v.autoupdate = probe.new.v.autoupdate

\* the clean lines of a config, as the processes clean() is to invoke
ExpectedClean(c) ==
    [m \in 1..Len(c.clean) |->
        [seq |-> "clean", n |-> m, argv |-> split_whitespace(c.clean[m])]]
\* C14: the clean subcommand. In a clean run the only processes invoked are
\* clean lines: for every repository whose config resolves, its clean
\* sequence in listed order, whatever its autoclean and autoupdate (always a
\* prefix of the sequence, the whole of it once its clean() has returned),
\* and nothing for a repository whose config does not resolve. No git pull
\* and no build line is invoked, the pending set stays empty, and the
\* persisted form is neither read nor written.
C14_CleanRunsOnlyClean ==
    cmd = "clean" =>
        /\ \A n \in DOMAIN log : log[n].seq = "clean"
        /\ \A j \in Reached :
              IF Resolved(j)
              THEN /\ IsPrefix(LinesOf(j), ExpectedClean(ConfOf(j)))
                   /\ j < i => LinesOf(j) = ExpectedClean(ConfOf(j))
                   /\ Contiguous(j)
              ELSE \A n \in DOMAIN log : log[n].cwd # repos[j]
        /\ pc = "exit" => Len(confs) = Len(repos)
        /\ pulls = <<>>
        /\ persisted = NoFile
        /\ pc \notin {"pull_iter", "update_read", "update_iter", "build"}
        /\ \A child \in children : child.seq = "clean"
C14_Witness ==
    /\ cmd = "clean" /\ pc = "exit"
    /\ Len(repos) = 2
    /\ Resolved(1) /\ Resolved(2)
    /\ ConfOf(1).autoupdate /\ ~ConfOf(1).autoclean /\ ConfOf(1).build # <<>>
    /\ Len(ConfOf(1).clean) = 2
    /\ Len(LinesOf(1)) = 2
    /\ Len(LinesOf(2)) = 1

\* discovery has run over a listing of the base directory
Iterated == probe # None /\ probe.stage = "iter"
\* the entries of the listing that are directories and open as repositories
ValidRepos == {n \in 1..MaxRepos : probe.listing[n] = "repo"}
Discovered == {probe.repos[m] : m \in DOMAIN probe.repos}
PathsOf(entries) == {probe.new.v.base_dir \o <<EntryName(n), ".git">> : n \in entries}

C16_StartupValidationFirst ==
    /\ [](/\ (pc # "start" /\ panic \notin StartupErrors) =>
                \/ rema_config = Moved
                \/ /\ IsSome(rema_config)
                   /\ ~is_relative(rema_config.v.base_dir)
                   /\ is_dir(rema_config.v.base_dir)
          /\ pc = "start" => rema_config = None /\ log = <<>>
          /\ panic \in StartupErrors =>
                /\ pc = "panicked"
                /\ rema_config = None
                /\ listing = <<>> /\ repos = <<>> /\ confs = <<>>
                /\ log = <<>> /\ pulls = <<>>
                /\ persisted = NoFile)
    /\ [][pc # "panicked"]_vars
C16_Witness ==
    /\ cmd = "pull"
    /\ pc = "panicked"
    /\ panic = "BaseDirRelative"
    /\ log = <<>>

\* a global config file was parsed into a RemaConfigSe and converted
Converted ==
    /\ probe # None
    /\ probe.stage # "file"
    /\ probe.file.tag = "ok"
    /\ probe.file.repo # None
ProcessStep == children' # children \/ Len(log') > Len(log)
C19_PullSpawnFailureAborts ==
    \A n \in DOMAIN log :
        (log[n].seq = "pull" /\ log[n].outcome = "spawn_err") =>
            /\ n = Len(log)
            /\ pc = "panicked"
            /\ panic = "failed to execute git"
            /\ i <= Len(repos)
            /\ log[n].cwd = repos[i]
            /\ Len(confs) = i
            /\ children = {}
            /\ ~PullWritten
            /\ persisted = NoFile
            /\ \A m \in DOMAIN pulls : ~Listed(pulls[m])
C19_Witness ==
    /\ cmd = "pull"
    /\ pc = "panicked"
    /\ panic = "failed to execute git"
    /\ Len(repos) = 2 /\ i = 2
    /\ Len(pulls) = 1
    /\ log[Len(log)].seq = "pull"
    /\ log[Len(log)].outcome = "spawn_err"
    /\ persisted = NoFile

====
